---- MODULE Spec2Model ----
(***************************************************************************)
(* State-machine model of scripts/update_music_data.py: one run of main(), *)
(* its five Last.fm API calls, the construction of the music.yml document  *)
(* and the write of the destination file.                                  *)
(*                                                                         *)
(* Python values are modelled as follows.                                  *)
(*   str          a string; its characters are the one-character strings   *)
(*                SubSeq(s, i, i).  The characters told apart are the      *)
(*                printable ASCII characters, the white space " ", \t, \n, *)
(*                \r and \f, and letters outside ASCII (which are neither  *)
(*                digits nor white space).  A string literal of this       *)
(*                notation cannot hold the grave accent (U+0060): the      *)
(*                model writes it as the character Backtick, and every     *)
(*                definition treats Backtick as the code treats U+0060.    *)
(*   dict         a function whose domain is the set of keys present       *)
(*   list         a sequence                                               *)
(*   None / str   <<>> / <<s>> for the two environment-provided values     *)
(*   JSON value   [obj |-> d] for an object, [arr |-> l] for an array and  *)
(*                [null |-> TRUE] for null, where the code expects an      *)
(*                object: the body of a response, the value under its      *)
(*                top-level key, the user info.  [raw |-> s] is a body     *)
(*                that is no JSON text.                                    *)
(*   int or str   [int |-> n] / [str |-> s] for play counts                *)
(*   str or dict  [str |-> s] / [map |-> d, order |-> keys] for an item's  *)
(*                artist field, the keys in insertion order                *)
(*   text file    the string of its characters                             *)
(***************************************************************************)
EXTENDS Integers, Sequences, FiniteSets, TLC

VARIABLES
    LASTFM_API_KEY,   \* module-level configuration, read from the environment
    LASTFM_USERNAME,
    pc,               \* position of the run inside main()
    requests,         \* the GET requests issued so far (query parameters)
    responses,        \* what came back for each request, in order
    user_info,        \* locals of generate_music_yaml
    top_artists,
    top_tracks,
    top_albums,
    recent_tracks,
    music_data,
    yaml_content,     \* local of main()
    file,             \* the destination file
    file0,            \* the destination file as it was when the run started
    handle,           \* the file object of the with-statement
    console,          \* lines printed to standard output
    raised,           \* the uncaught exception that ended the run, if any
    exit_code,        \* process exit status, -1 while running
    now,              \* the wall clock read by datetime.now()
    prev              \* summary of the previous run of the script, if any

vars == <<LASTFM_API_KEY, LASTFM_USERNAME, pc, requests, responses, user_info,
          top_artists, top_tracks, top_albums, recent_tracks, music_data,
          yaml_content, file, file0, handle, console, raised, exit_code, now, prev>>

(***************************************************************************)
(* Bounds of the model.                                                    *)
(***************************************************************************)
MaxTop == 1        \* longest list returned for top artists / tracks / albums
MaxRecent == 6     \* longest list returned for recent tracks
MaxReruns == 1     \* how many times the script is run again after a first run

(***************************************************************************)
(* Generic Python helpers.                                                 *)
(***************************************************************************)
EmptyDict == [k \in {} |-> ""]
None == <<>>
Some(s) == <<s>>

\* dict.get(k, default)
Get(d, k, default) == IF k \in DOMAIN d THEN d[k] ELSE default

\* JSON values where the code expects an object
Obj(d) == [obj |-> d]
Null == [null |-> TRUE]
IsObj(v) == "obj" \in DOMAIN v

\* os.environ.get(name) / os.environ.get(name, default)
EnvGet(env, name) == IF name \in DOMAIN env THEN Some(env[name]) ELSE None
EnvGetDefault(env, name, default) == IF name \in DOMAIN env THEN env[name] ELSE default

DefaultUsername == "jaimeum19"
BASE_URL == "http://ws.audioscrobbler.com/2.0/"

\* `not LASTFM_API_KEY`: None and the empty string are both falsy
KeyMissingNoneOnly(k) == k = None
KeyMissing(k) == k = None \/ k = Some("")

(***************************************************************************)
(* Strings.                                                                *)
(***************************************************************************)
\* s[i] for i counted from 1; "" past the end
Char(s, i) == IF i \in 1..Len(s) THEN SubSeq(s, i, i) ELSE ""
\* the characters m..n of s, counted from 1
Sub(s, m, n) == IF m > n THEN "" ELSE SubSeq(s, m, n)
\* s[a:b] for 0 <= a, b <= len(s)
Slice(s, a, b) == Sub(s, a + 1, b)
CharsOf(s) == {Char(s, i) : i \in 1..Len(s)}
Contains(s, sub) == \E i \in 1..(Len(s) - Len(sub) + 1) : SubSeq(s, i, i + Len(sub) - 1) = sub
StartsWith(s, p) == Len(s) >= Len(p) /\ SubSeq(s, 1, Len(p)) = p
EndsWith(s, p) == Len(s) >= Len(p) /\ SubSeq(s, Len(s) - Len(p) + 1, Len(s)) = p

\* c * n
RECURSIVE Repeat(_, _)
Repeat(c, n) ==
    IF n <= 0 THEN ""
    ELSE IF n = 1 THEN c
    ELSE Repeat(c, n \div 2) \o Repeat(c, n - n \div 2)

\* "".join(ss[a..b])
RECURSIVE Concat(_, _, _)
Concat(ss, a, b) ==
    IF a > b THEN ""
    ELSE IF a = b THEN ss[a]
    ELSE Concat(ss, a, (a + b) \div 2) \o Concat(ss, (a + b) \div 2 + 1, b)

\* sep.join(ss)
Join(sep, ss) == Concat([i \in 1..Len(ss) |-> IF i = 1 THEN ss[i] ELSE sep \o ss[i]], 1, Len(ss))

Min(a, b) == IF a < b THEN a ELSE b
MinOf(S) == CHOOSE m \in S : \A k \in S : m <= k

\* the grave accent (U+0060), written as the control character DEL (U+007F,
\* the one character between the quotes), which is not itself among the
\* characters of the model's texts
Backtick == ""
Digits == {"0", "1", "2", "3", "4", "5", "6", "7", "8", "9"}
Space == {" ", "\t", "\n", "\r", "\f"}

(***************************************************************************)
(* format_number: int(num), then grouping by thousands with commas.        *)
(* int() of a str strips surrounding white space, takes an optional sign   *)
(* and then decimal digits, where single underscores may separate digits.  *)
(***************************************************************************)
DigitVal(c) == CHOOSE d \in 0..9 : ToString(d) = c

\* s.strip()
RECURSIVE LStrip(_)
LStrip(s) == IF s # "" /\ Char(s, 1) \in Space THEN LStrip(Sub(s, 2, Len(s))) ELSE s
RECURSIVE RStrip(_)
RStrip(s) == IF s # "" /\ Char(s, Len(s)) \in Space THEN RStrip(Sub(s, 1, Len(s) - 1)) ELSE s
Strip(s) == RStrip(LStrip(s))

\* the text of int(s) after the white space and the sign
Unsigned(s) ==
    LET t == Strip(s) IN
    IF t # "" /\ Char(t, 1) \in {"-", "+"} THEN Sub(t, 2, Len(t)) ELSE t

\* digits, with single underscores between digits only
DigitGroups(t) ==
    /\ t # ""
    /\ \A i \in 1..Len(t) : Char(t, i) \in Digits \cup {"_"}
    /\ Char(t, 1) # "_"
    /\ Char(t, Len(t)) # "_"
    /\ \A i \in 1..(Len(t) - 1) : ~(Char(t, i) = "_" /\ Char(t, i + 1) = "_")

RECURSIVE DigitsVal(_)
DigitsVal(t) ==
    IF t = "" THEN 0
    ELSE IF Char(t, Len(t)) = "_" THEN DigitsVal(Sub(t, 1, Len(t) - 1))
    ELSE 10 * DigitsVal(Sub(t, 1, Len(t) - 1)) + DigitVal(Char(t, Len(t)))

\* does int(num) succeed (otherwise it raises ValueError)
IntOk(num) == IF "int" \in DOMAIN num THEN TRUE ELSE DigitGroups(Unsigned(num.str))

\* int(num)
IntOf(num) ==
    IF "int" \in DOMAIN num THEN num.int
    ELSE IF Char(Strip(num.str), 1) = "-" THEN 0 - DigitsVal(Unsigned(num.str))
    ELSE DigitsVal(Unsigned(num.str))

Pad3(r) == IF r < 10 THEN "00" \o ToString(r)
           ELSE IF r < 100 THEN "0" \o ToString(r)
           ELSE ToString(r)

RECURSIVE Grouped(_)
Grouped(n) == IF n < 1000 THEN ToString(n)
              ELSE Grouped(n \div 1000) \o "," \o Pad3(n % 1000)

\* f"{n:,}"
FormatInt(n) == IF n < 0 THEN "-" \o Grouped(0 - n) ELSE Grouped(n)

format_number(num) == FormatInt(IntOf(num))

(***************************************************************************)
(* The input domain: what the Last.fm API may answer.  The i-th item of a  *)
(* list carries the index i in its texts, so that order is observable; at  *)
(* most one item of a list has an unusual shape.                           *)
(***************************************************************************)
CountPool == <<"1234567", "42", " 9_876", "0">>
Count(i) == CountPool[((i - 1) % Len(CountPool)) + 1]
Ix(i) == ToString(i)

\* an artist mapping {"name": ..., "mbid": ""}
NamedArtist(i) == [map |-> [name |-> "Artist" \o Ix(i), mbid |-> ""],
                   order |-> <<"name", "mbid">>]

NormalArtist(i) ==
    [name |-> "Artist" \o Ix(i), playcount |-> [str |-> Count(i)],
     url |-> "https://www.last.fm/music/Artist" \o Ix(i)]
VariantArtist(i, v) ==
    IF v = "int_nourl"
    THEN [name |-> Backtick \o "Band" \o Ix(i), playcount |-> [int |-> 1000 * i]]
    ELSE [name |-> "Artist" \o Ix(i), playcount |-> [str |-> "n/a"],
          url |-> "https://www.last.fm/music/Artist" \o Ix(i)]

NormalTrack(i) ==
    [name |-> "Track" \o Ix(i), artist |-> NamedArtist(i),
     url |-> "https://www.last.fm/music/Artist" \o Ix(i) \o "/_/Track" \o Ix(i)]
VariantTrack(i, v) ==
    [name |-> "Track" \o Ix(i), artist |-> [str |-> "Artist" \o Ix(i)],
     url |-> "https://www.last.fm/music/Artist" \o Ix(i) \o "/_/Track" \o Ix(i)]

NormalAlbum(i) ==
    [name |-> "Album" \o Ix(i), artist |-> NamedArtist(i),
     url |-> "https://www.last.fm/music/Artist" \o Ix(i) \o "/Album" \o Ix(i)]
VariantAlbum(i, v) ==
    [artist |-> NamedArtist(i),
     url |-> "https://www.last.fm/music/Artist" \o Ix(i) \o "/Album" \o Ix(i)]

\* the artist of a recent track: {"#text": ..., "mbid": ""}
RecentArtist(i) ==
    [map |-> [k \in {"#text", "mbid"} |-> IF k = "#text" THEN "Band" \o Ix(i) ELSE ""],
     order |-> <<"#text", "mbid">>]
NormalRecent(i) ==
    [name |-> "Song" \o Ix(i), artist |-> RecentArtist(i),
     url |-> "https://www.last.fm/music/Band" \o Ix(i) \o "/_/Song" \o Ix(i)]
VariantRecent(i, v) ==
    IF v = "artist_str"
    THEN [name |-> "Song" \o Ix(i), artist |-> [str |-> "Band" \o Ix(i)],
          url |-> "https://www.last.fm/music/Band" \o Ix(i) \o "/_/Song" \o Ix(i)]
    ELSE IF v = "artist_notext"
    THEN [name |-> "Song" \o Ix(i), artist |-> NamedArtist(i),
          url |-> "https://www.last.fm/music/Band" \o Ix(i) \o "/_/Song" \o Ix(i)]
    ELSE IF v = "quoted_title"
    THEN [name |-> "Song: live, with a very long title that goes on and on and on and on and on and on",
          artist |-> RecentArtist(i), url |-> ""]
    ELSE [name |-> "Song with a very long title that goes on and on and on and on and on and on",
          artist |-> RecentArtist(i), url |-> ""]
RecentVariants == {"artist_str", "artist_notext", "quoted_title", "long_title"}

\* the lists of n items whose k-th item (if k > 0) has the shape v
ArtistList(n, k, v) == [i \in 1..n |-> IF i = k THEN VariantArtist(i, v) ELSE NormalArtist(i)]
TrackList(n, k, v) == [i \in 1..n |-> IF i = k THEN VariantTrack(i, v) ELSE NormalTrack(i)]
AlbumList(n, k, v) == [i \in 1..n |-> IF i = k THEN VariantAlbum(i, v) ELSE NormalAlbum(i)]
RecentList(n, k, v) == [i \in 1..n |-> IF i = k THEN VariantRecent(i, v) ELSE NormalRecent(i)]

\* (length, position of the unusual item) for lists of at most max items:
\* the unusual item is the first or the last one
Shapes(max) == {p \in (1..max) \X (1..max) : p[2] = 1 \/ p[2] = p[1]}

ArtistLists(max) == {ArtistList(n, 0, "") : n \in 0..max}
    \cup {ArtistList(p[1], p[2], v) : p \in Shapes(max), v \in {"int_nourl", "badcount"}}
TrackLists(max) == {TrackList(n, 0, "") : n \in 0..max}
    \cup {TrackList(p[1], p[2], v) : p \in Shapes(max), v \in {"artist_str"}}
AlbumLists(max) == {AlbumList(n, 0, "") : n \in 0..max}
    \cup {AlbumList(p[1], p[2], v) : p \in Shapes(max), v \in {"noname"}}
\* recent tracks: the plain-string artist in lists of every length, the
\* other two shapes as the first of one or two items
RecentLists(max) == {RecentList(n, 0, "") : n \in 0..max}
    \cup {RecentList(p[1], p[2], "artist_str") : p \in Shapes(max)}
    \cup {RecentList(n, 1, v) : n \in 1..Min(2, max), v \in RecentVariants \ {"artist_str"}}

UserInfos ==
    { EmptyDict,
      [playcount |-> [str |-> "1234567"], url |-> "https://www.last.fm/user/listener"],
      [playcount |-> [int |-> 42]] }

\* bodies of a 200 response that are JSON but hold no object where the code
\* expects one: a JSON array as the body, null under the top-level key
NotAnObject == [arr |-> <<>>]
NullUnder(outer) == Obj([k \in {outer} |-> Null])

\* JSON bodies of a 200 response: without the top-level key, without the
\* nested key, with both, or not of the expected shape
UserBodies(infos) ==
    {Obj(EmptyDict), NotAnObject, NullUnder("user")}
    \cup {Obj([user |-> Obj(u)]) : u \in infos}
ArtistBodies(lists) ==
    {Obj(EmptyDict), Obj([topartists |-> Obj(EmptyDict)]), NotAnObject, NullUnder("topartists")}
    \cup {Obj([topartists |-> Obj([artist |-> l])]) : l \in lists}
TrackBodies(lists) ==
    {Obj(EmptyDict), Obj([toptracks |-> Obj(EmptyDict)]), NotAnObject, NullUnder("toptracks")}
    \cup {Obj([toptracks |-> Obj([track |-> l])]) : l \in lists}
AlbumBodies(lists) ==
    {Obj(EmptyDict), Obj([topalbums |-> Obj(EmptyDict)]), NotAnObject, NullUnder("topalbums")}
    \cup {Obj([topalbums |-> Obj([album |-> l])]) : l \in lists}
RecentBodies(lists) ==
    {Obj(EmptyDict), Obj([recenttracks |-> Obj(EmptyDict)]), NotAnObject, NullUnder("recenttracks")}
    \cup {Obj([recenttracks |-> Obj([track |-> l])]) : l \in lists}

ErrorBody == Obj([error |-> "10", message |-> "Invalid API key"])
\* a body that is no JSON text
NotJson == [raw |-> "<html>Service Unavailable</html>"]
Statuses == {200, 403}

(***************************************************************************)
(* api_call and the five thin wrappers around it.                          *)
(***************************************************************************)
FetchLimit == 5
RecentLimit == 5

MethodsSwapped == <<"user.getinfo", "user.gettoptracks", "user.gettopartists",
                    "user.gettopalbums", "user.getrecenttracks">>
\* the calls of generate_music_yaml, in program order
Methods == <<"user.getinfo", "user.gettopartists", "user.gettoptracks",
             "user.gettopalbums", "user.getrecenttracks">>

\* the query parameters of the i-th call: the caller's params, then
\* params.update({method, api_key, format})
Request(i, username, key) ==
    IF i = 1
    THEN [user |-> username, method |-> Methods[i], api_key |-> key[1],
          format |-> "json", endpoint |-> BASE_URL]
    ELSE IF i = 5
    THEN [user |-> username, limit |-> FetchLimit, method |-> Methods[i],
          api_key |-> key[1], format |-> "json", endpoint |-> BASE_URL]
    ELSE [user |-> username, period |-> "overall", limit |-> FetchLimit,
          method |-> Methods[i], api_key |-> key[1], format |-> "json",
          endpoint |-> BASE_URL]

\* response.raise_for_status(): HTTPError for 4xx and 5xx
RaiseForStatusNever(status) == FALSE
RaiseForStatus(status) == status >= 400 /\ status < 600

\* response.json(): JSONDecodeError for a body that is no JSON text
JsonError(body) == IF "raw" \in DOMAIN body THEN "JSONDecodeError" ELSE "none"

\* data.get("user", {}): only a mapping has .get
UnwrapUser(data) == Get(data.obj, "user", Obj(EmptyDict))
UnwrapUserError(data) == IF IsObj(data) THEN "none" ELSE "AttributeError"

\* data.get(outer, {}).get(inner, [])
Unwrap2(data, outer, inner) == Get(Get(data.obj, outer, Obj(EmptyDict)).obj, inner, <<>>)
Unwrap2Error(data, outer) ==
    IF ~IsObj(data) THEN "AttributeError"
    ELSE IF ~IsObj(Get(data.obj, outer, Obj(EmptyDict))) THEN "AttributeError"
    ELSE "none"

(***************************************************************************)
(* generate_music_yaml: the entries of each category.                      *)
(***************************************************************************)
Rank(i) == "#" \o ToString(i + 1)       \* f"#{i+1}", i counted from 0

ProfileUrlFixed(info, username) == Get(info, "url", "https://www.last.fm/user/" \o DefaultUsername)
ProfileUrl(info, username) == Get(info, "url", "https://www.last.fm/user/" \o username)

\* user_info.get(...): only a mapping has .get
StatsEntry(info, username) ==
    [key |-> "Listening Statistics",
     value |-> << [key |-> "Total Scrobbles",
                   value |-> format_number(Get(info.obj, "playcount", [int |-> 0]))],
                  [key |-> "Last.fm Profile", value |-> username,
                   url |-> ProfileUrl(info.obj, username)] >>]
StatsErrorStrict(info) ==
    IF ~IsObj(info) THEN "AttributeError"
    ELSE IF "playcount" \notin DOMAIN info.obj THEN "KeyError"
    ELSE IF IntOk(info.obj.playcount) THEN "none" ELSE "ValueError"
StatsError(info) ==
    IF ~IsObj(info) THEN "AttributeError"
    ELSE IF IntOk(Get(info.obj, "playcount", [int |-> 0])) THEN "none" ELSE "ValueError"

ArtistEntry(i, artist) ==
    [key |-> Rank(i),
     value |-> artist.name \o " (" \o format_number(artist.playcount) \o " plays)",
     url |-> Get(artist, "url", "")]
ArtistError(artist) ==
    IF "name" \notin DOMAIN artist THEN "KeyError"
    ELSE IF "playcount" \notin DOMAIN artist THEN "KeyError"
    ELSE IF ~IntOk(artist.playcount) THEN "ValueError"
    ELSE "none"

\* track['artist']['name']: a str cannot be indexed by a str
TrackEntry(i, track) ==
    [key |-> Rank(i),
     value |-> track.name \o " - " \o track.artist.map.name,
     url |-> Get(track, "url", "")]
TrackError(track) ==
    IF "name" \notin DOMAIN track THEN "KeyError"
    ELSE IF "artist" \notin DOMAIN track THEN "KeyError"
    ELSE IF "str" \in DOMAIN track.artist THEN "TypeError"
    ELSE IF "name" \notin DOMAIN track.artist.map THEN "KeyError"
    ELSE "none"

\* album['artist']['name']
AlbumEntry(i, album) ==
    [key |-> Rank(i),
     value |-> album.name \o " - " \o album.artist.map.name,
     url |-> Get(album, "url", "")]
AlbumError(album) ==
    IF "name" \notin DOMAIN album THEN "KeyError"
    ELSE IF "artist" \notin DOMAIN album THEN "KeyError"
    ELSE IF "str" \in DOMAIN album.artist THEN "TypeError"
    ELSE IF "name" \notin DOMAIN album.artist.map THEN "KeyError"
    ELSE "none"

\* repr() of a str: single quotes, unless the text has a single quote and no
\* double quote; the quote, the backslash and control characters are escaped
ReprQuote(s) == IF "'" \in CharsOf(s) /\ "\"" \notin CharsOf(s) THEN "\"" ELSE "'"
ReprChar(c, quote) ==
    IF c = "\\" THEN "\\\\"
    ELSE IF c = quote THEN "\\" \o c
    ELSE IF c = "\n" THEN "\\n"
    ELSE IF c = "\t" THEN "\\t"
    ELSE IF c = "\r" THEN "\\r"
    ELSE IF c = "\f" THEN "\\x0c"
    ELSE c
ReprStr(s) ==
    ReprQuote(s) \o Join("", [i \in 1..Len(s) |-> ReprChar(Char(s, i), ReprQuote(s))])
    \o ReprQuote(s)

\* repr() of a dict of strings: {'k': 'v', ...} in insertion order
ReprDict(d, order) ==
    "{" \o Join(", ", [i \in 1..Len(order) |->
                          ReprStr(order[i]) \o ": " \o ReprStr(d[order[i]])]) \o "}"

\* track['artist'].get('#text', track['artist']) inside an f-string: the
\* default is the mapping itself, which the f-string renders with str()
ArtistText(artist) ==
    IF "#text" \in DOMAIN artist.map THEN artist.map["#text"]
    ELSE ReprDict(artist.map, artist.order)
RecentEntry(i, track) ==
    [key |-> Rank(i),
     value |-> track.name \o " - " \o ArtistText(track.artist),
     url |-> Get(track, "url", "")]
\* a str has no .get
RecentError(track) ==
    IF "name" \notin DOMAIN track THEN "KeyError"
    ELSE IF "artist" \notin DOMAIN track THEN "KeyError"
    ELSE IF "str" \in DOMAIN track.artist THEN "AttributeError"
    ELSE "none"

\* recent_tracks[:5]
RecentSliceAll(l) == l
RecentSlice(l) == SubSeq(l, 1, Min(RecentLimit, Len(l)))

\* `if top_artists:` and the like
TruthyAlways(l) == TRUE
Truthy(l) == l # <<>>

ReturnEntry == [key |-> "return", value |-> "previous page",
                url |-> "https://jaimeum.github.io"]

Section(key, entries) == [key |-> key, value |-> entries]

\* the exception the construction of music_data raises, "none" if it completes
FirstError(errs) ==
    IF \E i \in 1..Len(errs) : errs[i] # "none"
    THEN errs[CHOOSE i \in 1..Len(errs) :
                 errs[i] # "none" /\ \A j \in 1..(i - 1) : errs[j] = "none"]
    ELSE "none"

BuildError(info, artists, tracks, albums, recent) ==
    FirstError(<<StatsError(info)>>
               \o [i \in 1..Len(artists) |-> ArtistError(artists[i])]
               \o [i \in 1..Len(tracks) |-> TrackError(tracks[i])]
               \o [i \in 1..Len(albums) |-> AlbumError(albums[i])]
               \o [i \in 1..Len(RecentSlice(recent)) |-> RecentError(RecentSlice(recent)[i])])

Sections(artists, tracks, albums, recent) ==
    (IF Truthy(artists)
     THEN <<Section("Top Artists", [i \in 1..Len(artists) |-> ArtistEntry(i - 1, artists[i])])>>
     ELSE <<>>)
    \o (IF Truthy(tracks)
        THEN <<Section("Top Tracks", [i \in 1..Len(tracks) |-> TrackEntry(i - 1, tracks[i])])>>
        ELSE <<>>)
    \o (IF Truthy(albums)
        THEN <<Section("Top Albums", [i \in 1..Len(albums) |-> AlbumEntry(i - 1, albums[i])])>>
        ELSE <<>>)
    \o (IF Truthy(recent)
        THEN <<Section("Recently Played",
                       [i \in 1..Len(RecentSlice(recent)) |-> RecentEntry(i - 1, RecentSlice(recent)[i])])>>
        ELSE <<>>)

BuildDoc(username, info, artists, tracks, albums, recent) ==
    <<StatsEntry(info, username)>> \o Sections(artists, tracks, albums, recent) \o <<ReturnEntry>>

(***************************************************************************)
(* yaml.dump(music_data, default_flow_style=False, allow_unicode=True,     *)
(* sort_keys=False): block style, keys in insertion order (key, value,     *)
(* url), lines of at most about 80 columns, indentation by 2.              *)
(*                                                                         *)
(* Regular expressions, for the implicit resolvers of the YAML library: a  *)
(* tuple <<kind, argument>>, matched against a string from an offset.      *)
(***************************************************************************)
Lit(s) == <<"lit", s>>
Cls(S) == <<"cls", S>>
Cat(rs) == <<"cat", rs>>
Alt(rs) == <<"alt", rs>>
Opt(r) == <<"opt", r>>
Star(r) == <<"star", r>>
Plus(r) == <<"plus", r>>

\* the offsets at which a match of r that starts at offset i can end
RECURSIVE Ends(_, _, _)
Ends(r, s, i) ==
    CASE r[1] = "lit" ->
            IF i + Len(r[2]) <= Len(s) /\ Slice(s, i, i + Len(r[2])) = r[2]
            THEN {i + Len(r[2])} ELSE {}
      [] r[1] = "cls" -> IF i < Len(s) /\ Char(s, i + 1) \in r[2] THEN {i + 1} ELSE {}
      [] r[1] = "cat" ->
            IF Len(r[2]) = 0 THEN {i}
            ELSE UNION {Ends(Cat(Tail(r[2])), s, j) : j \in Ends(Head(r[2]), s, i)}
      [] r[1] = "alt" -> UNION {Ends(r[2][k], s, i) : k \in 1..Len(r[2])}
      [] r[1] = "opt" -> {i} \cup Ends(r[2], s, i)
      [] r[1] = "star" -> {i} \cup UNION {Ends(r, s, j) : j \in Ends(r[2], s, i) \ {i}}
      [] r[1] = "plus" -> UNION {Ends(Star(r[2]), s, j) : j \in Ends(r[2], s, i)}

\* re.match of ^(?:r)$ : `$` also matches before a final line break
Matches(r, s) ==
    \/ Len(s) \in Ends(r, s, 0)
    \/ (EndsWith(s, "\n") /\ (Len(s) - 1) \in Ends(r, s, 0))

\* the implicit resolvers in the order of their registration: tag, regular
\* expression, and the first characters under which it is looked up ("" for
\* the empty scalar)
ImplicitResolvers ==
    LET
        Sign == Cls({"-", "+"})
        Digit == Cls(Digits)
        DigitOrUnderscore == Cls(Digits \cup {"_"})
        Exponent == Cat(<<Cls({"e", "E"}), Sign, Plus(Digit)>>)
        Sexagesimal == Plus(Cat(<<Lit(":"), Opt(Cls({"0", "1", "2", "3", "4", "5"})), Digit>>))
        Blank == Cls({" ", "\t"})
        BoolRegex ==
            Alt(<<Lit("yes"), Lit("Yes"), Lit("YES"), Lit("no"), Lit("No"), Lit("NO"),
                  Lit("true"), Lit("True"), Lit("TRUE"), Lit("false"), Lit("False"), Lit("FALSE"),
                  Lit("on"), Lit("On"), Lit("ON"), Lit("off"), Lit("Off"), Lit("OFF")>>)
        FloatRegex ==
            Alt(<<Cat(<<Opt(Sign), Digit, Star(DigitOrUnderscore), Lit("."), Star(DigitOrUnderscore),
                        Opt(Exponent)>>),
                  Cat(<<Lit("."), Digit, Star(DigitOrUnderscore), Opt(Exponent)>>),
                  Cat(<<Opt(Sign), Digit, Star(DigitOrUnderscore), Sexagesimal, Lit("."),
                        Star(DigitOrUnderscore)>>),
                  Cat(<<Opt(Sign), Lit("."), Alt(<<Lit("inf"), Lit("Inf"), Lit("INF")>>)>>),
                  Cat(<<Lit("."), Alt(<<Lit("nan"), Lit("NaN"), Lit("NAN")>>)>>)>>)
        IntRegex ==
            Alt(<<Cat(<<Opt(Sign), Lit("0b"), Plus(Cls({"0", "1", "_"}))>>),
                  Cat(<<Opt(Sign), Lit("0"), Plus(Cls({"0", "1", "2", "3", "4", "5", "6", "7", "_"}))>>),
                  Cat(<<Opt(Sign), Alt(<<Lit("0"),
                                         Cat(<<Cls(Digits \ {"0"}), Star(DigitOrUnderscore)>>)>>)>>),
                  Cat(<<Opt(Sign), Lit("0x"),
                        Plus(Cls(Digits \cup {"a", "b", "c", "d", "e", "f",
                                              "A", "B", "C", "D", "E", "F", "_"}))>>),
                  Cat(<<Opt(Sign), Cls(Digits \ {"0"}), Star(DigitOrUnderscore), Sexagesimal>>)>>)
        MergeRegex == Lit("<<")
        NullRegex == Alt(<<Lit("~"), Lit("null"), Lit("Null"), Lit("NULL"), Lit("")>>)
        TimestampRegex ==
            Alt(<<Cat(<<Digit, Digit, Digit, Digit, Lit("-"), Digit, Digit, Lit("-"), Digit, Digit>>),
                  Cat(<<Digit, Digit, Digit, Digit, Lit("-"), Digit, Opt(Digit), Lit("-"), Digit,
                        Opt(Digit), Alt(<<Cls({"T", "t"}), Plus(Blank)>>),
                        Digit, Opt(Digit), Lit(":"), Digit, Digit, Lit(":"), Digit, Digit,
                        Opt(Cat(<<Lit("."), Star(Digit)>>)),
                        Opt(Cat(<<Star(Blank),
                                  Alt(<<Lit("Z"),
                                        Cat(<<Sign, Digit, Opt(Digit),
                                              Opt(Cat(<<Lit(":"), Digit, Digit>>))>>)>>)>>))>>)>>)
        ValueRegex == Lit("=")
    IN
    << <<"bool", BoolRegex, {"y", "Y", "n", "N", "t", "T", "f", "F", "o", "O"}>>,
       <<"float", FloatRegex, Digits \cup {"-", "+", "."}>>,
       <<"int", IntRegex, Digits \cup {"-", "+"}>>,
       <<"merge", MergeRegex, {"<"}>>,
       <<"null", NullRegex, {"~", "n", "N", ""}>>,
       <<"timestamp", TimestampRegex, Digits>>,
       <<"value", ValueRegex, {"="}>> >>

\* Resolver.resolve for a scalar: the tag a plain scalar would be read with
Resolve(value) ==
    LET hits == {k \in 1..Len(ImplicitResolvers) :
                    /\ Char(value, 1) \in ImplicitResolvers[k][3]
                    /\ Matches(ImplicitResolvers[k][2], value)}
    IN  IF hits = {} THEN "str"
        ELSE ImplicitResolvers[CHOOSE k \in hits : \A j \in hits : k <= j][1]

BestWidth == 80      \* the emitter's default line width
BestIndent == 2      \* the emitter's default indentation

\* Emitter.analyze_scalar, for a scalar in block context.  White space for
\* the indicator checks is the blank, the tab and the line breaks; a control
\* character other than the line feed is a special character.
YamlSpace == {" ", "\t", "\r", "\n"}
FollowedBySpace(s, i) == i >= Len(s) \/ Char(s, i + 1) \in YamlSpace
PrecededBySpace(s, i) == i <= 1 \/ Char(s, i - 1) \in YamlSpace
Analysis(s) ==
    LET chars == CharsOf(s) IN
    [ empty |-> s = "",
      block_indicators |->
          \/ StartsWith(s, "---")
          \/ StartsWith(s, "...")
          \/ Char(s, 1) \in {"#", ",", "[", "]", "{", "}", "&", "*", "!", "|", ">", "'",
                              "\"", "%", "@", Backtick}
          \/ (Char(s, 1) \in {"?", ":", "-"} /\ FollowedBySpace(s, 1))
          \/ /\ chars \cap {":", "#"} # {}
             /\ \E i \in 2..Len(s) :
                   \/ (Char(s, i) = ":" /\ FollowedBySpace(s, i))
                   \/ (Char(s, i) = "#" /\ PrecededBySpace(s, i)),
      line_breaks |-> "\n" \in chars,
      special_characters |-> chars \cap {"\t", "\r", "\f"} # {},
      leading_space |-> Char(s, 1) = " ",
      leading_break |-> Char(s, 1) = "\n",
      trailing_space |-> Char(s, Len(s)) = " ",
      trailing_break |-> Char(s, Len(s)) = "\n",
      break_space |-> /\ "\n" \in chars
                      /\ \E i \in 1..(Len(s) - 1) : Char(s, i) = "\n" /\ Char(s, i + 1) = " ",
      space_break |-> /\ "\n" \in chars
                      /\ \E i \in 1..(Len(s) - 1) : Char(s, i) = " " /\ Char(s, i + 1) = "\n" ]

AllowBlockPlain(a) ==
    \/ a.empty
    \/ /\ ~(a.leading_space \/ a.leading_break \/ a.trailing_space \/ a.trailing_break)
       /\ ~a.break_space
       /\ ~(a.space_break \/ a.special_characters)
       /\ ~a.line_breaks
       /\ ~a.block_indicators
AllowSingleQuoted(a) ==
    a.empty \/ (~a.break_space /\ ~(a.space_break \/ a.special_characters))

\* Emitter.choose_scalar_style for the value of a block mapping: plain when
\* the text reads back as a string and may be written plain, else quoted
ScalarStyle(s) ==
    LET a == Analysis(s) IN
    IF Resolve(s) = "str" /\ AllowBlockPlain(a) THEN "plain"
    ELSE IF AllowSingleQuoted(a) THEN "single"
    ELSE "double"
NeedsQuote(s) == ScalarStyle(s) # "plain"

\* Emitter.write_indent inside a scalar: a line break, then the indentation
Indent(indent) == "\n" \o Repeat(" ", indent)

\* Emitter.write_plain with split=True, for a text whose first character
\* goes to the given column: a single blank between two words is replaced
\* by a line break and the indentation once the column has passed the line
\* width, that is from offset BestWidth - column + 1 on.  The text up to
\* the first such blank is on this line.
RECURSIVE WritePlain(_, _, _)
WritePlain(text, column, indent) ==
    LET folds == {p \in (BestWidth - column + 1)..(Len(text) - 1) :
                     /\ p >= 0
                     /\ Char(text, p + 1) = " "
                     /\ Char(text, p) # " "
                     /\ Char(text, p + 2) # " "}
    IN  IF folds = {} THEN text
        ELSE Slice(text, 0, MinOf(folds)) \o Indent(indent)
             \o WritePlain(Slice(text, MinOf(folds) + 1, Len(text)), indent, indent)

\* a text inside single quotes: every quote is doubled
Doubled(s) == Join("", [i \in 1..Len(s) |-> IF Char(s, i) = "'" THEN "''" ELSE Char(s, i)])

\* Emitter.write_single_quoted with split=True, without the two quotes: a
\* single blank between two words is replaced as in a plain scalar (a
\* character takes at most two columns, so not before half the remaining
\* width); a run of n line breaks is written as n + 1 line breaks and the
\* indentation
RECURSIVE WriteSingleQuoted(_, _, _)
WriteSingleQuoted(text, column, indent) ==
    LET folds == {p \in ((BestWidth - column) \div 2)..(Len(text) - 2) :
                     /\ p >= 1
                     /\ Char(text, p + 1) = " "
                     /\ Char(text, p) # " "
                     /\ Char(text, p + 2) # " "
                     /\ column + Len(Doubled(Slice(text, 0, p))) > BestWidth}
        breaks == {p \in 0..(Len(text) - 1) : Char(text, p + 1) = "\n"}
        p == MinOf(folds \cup breaks)
        q == MinOf({k \in p..Len(text) : Char(text, k + 1) # "\n"})
    IN  IF folds \cup breaks = {} THEN Doubled(text)
        ELSE IF p \in breaks
        THEN Doubled(Slice(text, 0, p)) \o "\n" \o Repeat("\n", q - p) \o Repeat(" ", indent)
             \o WriteSingleQuoted(Slice(text, q, Len(text)), indent, indent)
        ELSE Doubled(Slice(text, 0, p)) \o Indent(indent)
             \o WriteSingleQuoted(Slice(text, p + 1, Len(text)), indent, indent)

\* the escape sequence of a character inside a double-quoted scalar
Escaped == {"\"", "\\", "\t", "\n", "\r", "\f"}
Escape(ch) ==
    IF ch = "\"" THEN "\\\""
    ELSE IF ch = "\\" THEN "\\\\"
    ELSE IF ch = "\t" THEN "\\t"
    ELSE IF ch = "\n" THEN "\\n"
    ELSE IF ch = "\r" THEN "\\r"
    ELSE IF ch = "\f" THEN "\\f"
    ELSE ch
EscapedText(s) == Join("", [i \in 1..Len(s) |-> Escape(Char(s, i))])

\* Emitter.write_double_quoted with split=True, without the two quotes.
\* The text before offset ls is written and the column is the given one;
\* the line is split at the first offset e >= e0, neither the first nor the
\* last offset, at which the column has passed the line width and the
\* character is a blank or an escaped one or follows an escaped one.  The
\* split is a backslash, a line break and the indentation, and a backslash
\* more when the next line starts with a blank.  A character takes at most
\* two columns, so there is no split before half the remaining width.
RECURSIVE WriteDoubleQuoted(_, _, _, _, _)
WriteDoubleQuoted(text, ls, e0, column, indent) ==
    LET width(e) == column + Len(EscapedText(Slice(text, ls, e)))
        folds == {e \in e0..(Len(text) - 2) :
                     /\ e > 0
                     /\ e - ls >= (BestWidth - column) \div 2
                     /\ IF Char(text, e + 1) \in Escaped
                        THEN width(e) + Len(Escape(Char(text, e + 1))) - 1 > BestWidth
                        ELSE /\ Char(text, e + 1) = " " \/ ls >= e \/ Char(text, e) \in Escaped
                             /\ width(e) > BestWidth}
        e == MinOf(folds)
        start == IF Char(text, e + 1) \in Escaped THEN e + 1 ELSE e
        lead == IF Char(text, start + 1) = " " THEN "\\" ELSE ""
    IN  IF folds = {} THEN EscapedText(Slice(text, ls, Len(text)))
        ELSE EscapedText(Slice(text, ls, start)) \o "\\" \o Indent(indent) \o lead
             \o WriteDoubleQuoted(text, start, e + 1, indent + Len(lead), indent)

\* Emitter.process_scalar after a "key:" that ends in the given column: a
\* blank, then the scalar in its style; continuation lines are indented
Scalar(s, column, indent) ==
    LET style == ScalarStyle(s) IN
    CASE style = "plain" -> " " \o WritePlain(s, column + 1, indent)
      [] style = "single" -> " '" \o WriteSingleQuoted(s, column + 2, indent) \o "'"
      [] style = "double" -> " \"" \o WriteDoubleQuoted(s, 0, 0, column + 2, indent) \o "\""

\* a mapping whose value is a string, as an item of a block sequence that is
\* indented by ind: the keys key, value and url in insertion order
LeafLines(e, ind) ==
    << Repeat(" ", ind) \o "- key:" \o Scalar(e.key, ind + 6, ind + 2 * BestIndent),
       Repeat(" ", ind) \o "  value:" \o Scalar(e.value, ind + 8, ind + 2 * BestIndent) >>
    \o (IF "url" \in DOMAIN e
        THEN << Repeat(" ", ind) \o "  url:" \o Scalar(e.url, ind + 6, ind + 2 * BestIndent) >>
        ELSE <<>>)

RECURSIVE Flatten(_)
Flatten(ss) == IF ss = <<>> THEN <<>> ELSE Head(ss) \o Flatten(Tail(ss))

\* a mapping whose value is a list of such mappings; the list is not
\* indented further than the mapping
CategoryLines(e) ==
    IF e.value = <<>>
    THEN << "- key:" \o Scalar(e.key, 6, 2 * BestIndent), "  value: []" >>
    ELSE << "- key:" \o Scalar(e.key, 6, 2 * BestIndent), "  value:" >>
         \o Flatten([i \in 1..Len(e.value) |-> LeafLines(e.value[i], BestIndent)])

DumpLines(doc) ==
    Flatten([i \in 1..Len(doc) |->
                IF "url" \in DOMAIN doc[i] THEN LeafLines(doc[i], 0) ELSE CategoryLines(doc[i])])

\* strftime('%Y-%m-%d %H:%M:%S') of the clock, a number of seconds below ten
Timestamp(t) == "1970-01-01 00:00:0" \o ToString(t)

\* every line of the document ends with a line break
yaml_dump_stamped(doc) ==
    "# Last updated: " \o Timestamp(now) \o "\n" \o Join("\n", DumpLines(doc)) \o "\n"
yaml_dump(doc) == Join("\n", DumpLines(doc)) \o "\n"

(***************************************************************************)
(* The destination file: os.path.normpath(os.path.join(                    *)
(* os.path.dirname(__file__), "..", "_data", "music.yml")).                *)
(***************************************************************************)
\* __file__ of the script, an absolute path
ScriptFile == "/srv/site/scripts/update_music_data.py"

\* the offset after the last "/" of p, 0 if there is none: p.rfind("/") + 1
AfterLastSlash(p) == IF "/" \in CharsOf(p) THEN CHOOSE i \in 1..Len(p) :
                         Char(p, i) = "/" /\ \A j \in (i + 1)..Len(p) : Char(p, j) # "/"
                     ELSE 0

\* os.path.dirname: the head up to the last slash, without trailing slashes
\* unless it consists of slashes only
PathDirname(p) ==
    LET head == Slice(p, 0, AfterLastSlash(p))
        kept == {n \in 1..Len(head) : Char(head, n) # "/"}
    IN  IF kept = {} THEN head ELSE Slice(head, 0, CHOOSE n \in kept : \A k \in kept : k <= n)

\* os.path.join
RECURSIVE PathJoin(_, _)
PathJoin(a, ps) ==
    IF ps = <<>> THEN a
    ELSE IF StartsWith(Head(ps), "/") THEN PathJoin(Head(ps), Tail(ps))
    ELSE IF a = "" \/ EndsWith(a, "/") THEN PathJoin(a \o Head(ps), Tail(ps))
    ELSE PathJoin(a \o "/" \o Head(ps), Tail(ps))

\* p.split("/")
RECURSIVE Split(_)
Split(p) ==
    IF "/" \notin CharsOf(p) THEN <<p>>
    ELSE Append(Split(Slice(p, 0, AfterLastSlash(p) - 1)), Slice(p, AfterLastSlash(p), Len(p)))

\* the loop of os.path.normpath over the components
RECURSIVE Collapse(_, _, _)
Collapse(comps, new_comps, rooted) ==
    IF comps = <<>> THEN new_comps
    ELSE LET comp == Head(comps) IN
         IF comp \in {"", "."} THEN Collapse(Tail(comps), new_comps, rooted)
         ELSE IF \/ comp # ".."
                 \/ (~rooted /\ new_comps = <<>>)
                 \/ (new_comps # <<>> /\ new_comps[Len(new_comps)] = "..")
         THEN Collapse(Tail(comps), Append(new_comps, comp), rooted)
         ELSE IF new_comps # <<>>
         THEN Collapse(Tail(comps), SubSeq(new_comps, 1, Len(new_comps) - 1), rooted)
         ELSE Collapse(Tail(comps), new_comps, rooted)

\* os.path.normpath
NormPath(p) ==
    LET initial_slashes == IF ~StartsWith(p, "/") THEN 0
                           ELSE IF StartsWith(p, "//") /\ ~StartsWith(p, "///") THEN 2
                           ELSE 1
        path == Repeat("/", initial_slashes)
                \o Join("/", Collapse(Split(p), <<>>, initial_slashes > 0))
    IN  IF path = "" THEN "." ELSE path

OutputPath == NormPath(PathJoin(PathDirname(ScriptFile), <<"..", "_data", "music.yml">>))

NoFile == [exists |-> FALSE, content |-> ""]
OldFile == [exists |-> TRUE, content |-> "- key: return\n  value: old page\n"]

\* open(output_path, "w"): creates the file or truncates it to length zero
OpenForWrite(f) == [exists |-> TRUE, content |-> ""]

\* f.write(text) and the close, when the device has room for only that many
\* more characters: the characters that fit reach the file
Written(text, room) == Slice(text, 0, Min(room, Len(text)))

\* the room left on the device in the runs where the write fails: none, a
\* part of the first line, all but the last character
Rooms(text) == {room \in {0, 20, Len(text) - 1} : room < Len(text)}

(***************************************************************************)
(* Initial states: the environment and the destination file.               *)
(***************************************************************************)
Envs ==
    {[name \in D |-> IF name = "LASTFM_API_KEY" THEN key ELSE "alice"] :
        D \in SUBSET {"LASTFM_API_KEY", "LASTFM_USERNAME"}, key \in {"", "secret"}}

Init ==
    /\ \E env \in Envs :
          /\ LASTFM_API_KEY = EnvGet(env, "LASTFM_API_KEY")
          /\ LASTFM_USERNAME = EnvGetDefault(env, "LASTFM_USERNAME", DefaultUsername)
    /\ pc = "main"
    /\ requests = <<>>
    /\ responses = <<>>
    /\ user_info = Obj(EmptyDict)
    /\ top_artists = <<>>
    /\ top_tracks = <<>>
    /\ top_albums = <<>>
    /\ recent_tracks = <<>>
    /\ music_data = <<>>
    /\ yaml_content = ""
    /\ file \in {NoFile, OldFile}
    /\ file0 = file
    /\ handle = "none"
    /\ console = <<>>
    /\ raised = "none"
    /\ exit_code = -1
    /\ now = 0
    /\ prev = <<>>

(***************************************************************************)
(* Actions.                                                                *)
(***************************************************************************)
locals == <<user_info, top_artists, top_tracks, top_albums, recent_tracks,
            music_data, yaml_content>>
config == <<LASTFM_API_KEY, LASTFM_USERNAME>>
disk == <<file, file0, handle>>

\* an uncaught exception ends the process with status 1
Raise(e) == /\ raised' = e
            /\ exit_code' = 1
            /\ pc' = "exit"

\* main(), lines 169-172: the API key is missing
main_no_key ==
    /\ pc = "main"
    /\ KeyMissing(LASTFM_API_KEY)
    /\ console' = console \o <<"Error: LASTFM_API_KEY environment variable is not set.",
                               "Get an API key at: https://www.last.fm/api/account/create">>
    /\ exit_code' = 1
    /\ pc' = "exit"
    /\ UNCHANGED <<config, requests, responses, locals, disk, raised, now, prev>>

\* main() line 174 and generate_music_yaml line 76
main_begin ==
    /\ pc = "main"
    /\ ~KeyMissing(LASTFM_API_KEY)
    /\ console' = Append(console, "Fetching data for user: " \o LASTFM_USERNAME)
    /\ pc' = "send"
    /\ UNCHANGED <<config, requests, responses, locals, disk, raised, exit_code, now, prev>>

\* api_call up to requests.get: the next request goes out
api_call_send ==
    /\ pc = "send"
    /\ requests' = Append(requests, Request(Len(requests) + 1, LASTFM_USERNAME, LASTFM_API_KEY))
    /\ pc' = "recv"
    /\ UNCHANGED <<config, responses, locals, disk, console, raised, exit_code, now, prev>>

\* requests.get fails at the transport level
api_call_transport_error ==
    /\ pc = "recv"
    /\ responses' = Append(responses, [error |-> "ConnectionError"])
    /\ Raise("ConnectionError")
    /\ UNCHANGED <<config, requests, locals, disk, console, now, prev>>

\* raise_for_status raises
api_call_http_error ==
    /\ pc = "recv"
    /\ \E status \in Statuses :
          /\ RaiseForStatus(status)
          /\ responses' = Append(responses, [status |-> status, body |-> ErrorBody])
    /\ Raise("HTTPError")
    /\ UNCHANGED <<config, requests, locals, disk, console, now, prev>>

\* the responses that pass raise_for_status
Passed(bodies) ==
    {r \in {[status |-> 200, body |-> b] : b \in bodies}
           \cup {[status |-> st, body |-> ErrorBody] : st \in Statuses \ {200}} :
        ~RaiseForStatus(r.status)}

\* response.json() raises: the body is no JSON text
api_call_json_error ==
    /\ pc = "recv"
    /\ \E r \in Passed({NotJson}) :
          /\ JsonError(r.body) # "none"
          /\ responses' = Append(responses, r)
          /\ Raise(JsonError(r.body))
    /\ UNCHANGED <<config, requests, locals, disk, console, now, prev>>

\* the responses api_call returns to its caller
Returned(bodies) == {r \in Passed(bodies) : JsonError(r.body) = "none"}

AfterCall == IF Len(requests) < Len(Methods) THEN "send" ELSE "build"

\* a wrapper either raises on the shape of the data or stores what it unwraps
Unwrapped(err) ==
    IF err = "none"
    THEN pc' = AfterCall /\ UNCHANGED <<raised, exit_code>>
    ELSE Raise(err)

get_user_info(bodies) ==
    /\ pc = "recv" /\ Len(requests) = 1
    /\ \E r \in Returned(bodies) :
          /\ responses' = Append(responses, r)
          /\ Unwrapped(UnwrapUserError(r.body))
          /\ user_info' = IF UnwrapUserError(r.body) = "none" THEN UnwrapUser(r.body)
                          ELSE user_info
    /\ UNCHANGED <<config, requests, top_artists, top_tracks, top_albums, recent_tracks,
                   music_data, yaml_content, disk, console, now, prev>>

get_top_artists(bodies) ==
    /\ pc = "recv" /\ Len(requests) = 2
    /\ \E r \in Returned(bodies) :
          /\ responses' = Append(responses, r)
          /\ Unwrapped(Unwrap2Error(r.body, "topartists"))
          /\ top_artists' = IF Unwrap2Error(r.body, "topartists") = "none"
                            THEN Unwrap2(r.body, "topartists", "artist") ELSE top_artists
    /\ UNCHANGED <<config, requests, user_info, top_tracks, top_albums, recent_tracks,
                   music_data, yaml_content, disk, console, now, prev>>

get_top_tracks(bodies) ==
    /\ pc = "recv" /\ Len(requests) = 3
    /\ \E r \in Returned(bodies) :
          /\ responses' = Append(responses, r)
          /\ Unwrapped(Unwrap2Error(r.body, "toptracks"))
          /\ top_tracks' = IF Unwrap2Error(r.body, "toptracks") = "none"
                           THEN Unwrap2(r.body, "toptracks", "track") ELSE top_tracks
    /\ UNCHANGED <<config, requests, user_info, top_artists, top_albums, recent_tracks,
                   music_data, yaml_content, disk, console, now, prev>>

get_top_albums(bodies) ==
    /\ pc = "recv" /\ Len(requests) = 4
    /\ \E r \in Returned(bodies) :
          /\ responses' = Append(responses, r)
          /\ Unwrapped(Unwrap2Error(r.body, "topalbums"))
          /\ top_albums' = IF Unwrap2Error(r.body, "topalbums") = "none"
                           THEN Unwrap2(r.body, "topalbums", "album") ELSE top_albums
    /\ UNCHANGED <<config, requests, user_info, top_artists, top_tracks, recent_tracks,
                   music_data, yaml_content, disk, console, now, prev>>

get_recent_tracks(bodies) ==
    /\ pc = "recv" /\ Len(requests) = 5
    /\ \E r \in Returned(bodies) :
          /\ responses' = Append(responses, r)
          /\ Unwrapped(Unwrap2Error(r.body, "recenttracks"))
          /\ recent_tracks' = IF Unwrap2Error(r.body, "recenttracks") = "none"
                              THEN Unwrap2(r.body, "recenttracks", "track") ELSE recent_tracks
    /\ UNCHANGED <<config, requests, user_info, top_artists, top_tracks, top_albums,
                   music_data, yaml_content, disk, console, now, prev>>

\* generate_music_yaml lines 85-165: an item of the wrong shape raises
generate_music_yaml_raises ==
    /\ pc = "build"
    /\ BuildError(user_info, top_artists, top_tracks, top_albums, recent_tracks) # "none"
    /\ Raise(BuildError(user_info, top_artists, top_tracks, top_albums, recent_tracks))
    /\ UNCHANGED <<config, requests, responses, locals, disk, console, now, prev>>

\* generate_music_yaml lines 85-165: the document is built and serialized
generate_music_yaml_returns ==
    /\ pc = "build"
    /\ BuildError(user_info, top_artists, top_tracks, top_albums, recent_tracks) = "none"
    /\ music_data' = BuildDoc(LASTFM_USERNAME, user_info, top_artists, top_tracks,
                              top_albums, recent_tracks)
    /\ yaml_content' = yaml_dump(music_data')
    /\ pc' = "open"
    /\ UNCHANGED <<config, requests, responses, user_info, top_artists, top_tracks,
                   top_albums, recent_tracks, disk, console, raised, exit_code, now, prev>>

\* open(output_path, "w") fails: the file is as it was
main_open_fails ==
    /\ pc = "open"
    /\ Raise("OSError")
    /\ UNCHANGED <<config, requests, responses, locals, disk, console, now, prev>>

main_open ==
    /\ pc = "open"
    /\ file' = OpenForWrite(file)
    /\ handle' = "open"
    /\ pc' = "write"
    /\ UNCHANGED <<config, requests, responses, locals, file0, console, raised,
                   exit_code, now, prev>>

\* f.write(yaml_content) and the close at the end of the with block
main_write ==
    /\ pc = "write"
    /\ file' = [file EXCEPT !.content = yaml_content]
    /\ handle' = "closed"
    /\ pc' = "finish"
    /\ UNCHANGED <<config, requests, responses, locals, file0, console, raised,
                   exit_code, now, prev>>

\* the write or the flush fails: the with block still closes the file
main_write_fails ==
    /\ pc = "write"
    /\ \E room \in Rooms(yaml_content) :
          file' = [file EXCEPT !.content = Written(yaml_content, room)]
    /\ handle' = "closed"
    /\ Raise("OSError")
    /\ UNCHANGED <<config, requests, responses, locals, file0, console, now, prev>>

\* main() lines 183-185
main_finish ==
    /\ pc = "finish"
    /\ console' = console \o <<"Successfully updated " \o OutputPath,
                               "Last updated: " \o Timestamp(now)>>
    /\ exit_code' = 0
    /\ pc' = "exit"
    /\ UNCHANGED <<config, requests, responses, locals, disk, raised, now, prev>>

Run(ub, ab, tb, lb, rb) ==
    \/ main_no_key
    \/ main_begin
    \/ api_call_send
    \/ api_call_transport_error
    \/ api_call_http_error
    \/ api_call_json_error
    \/ get_user_info(ub)
    \/ get_top_artists(ab)
    \/ get_top_tracks(tb)
    \/ get_top_albums(lb)
    \/ get_recent_tracks(rb)
    \/ generate_music_yaml_raises
    \/ generate_music_yaml_returns
    \/ main_open_fails
    \/ main_open
    \/ main_write
    \/ main_write_fails
    \/ main_finish

\* what each of the five calls may return within the bounds
AllUserBodies == UserBodies(UserInfos)
AllArtistBodies == ArtistBodies(ArtistLists(MaxTop))
AllTrackBodies == TrackBodies(TrackLists(MaxTop))
AllAlbumBodies == AlbumBodies(AlbumLists(MaxTop))
AllRecentBodies == RecentBodies(RecentLists(MaxRecent))

Next == Run(AllUserBodies, AllArtistBodies, AllTrackBodies, AllAlbumBodies, AllRecentBodies)

Spec == Init /\ [][Next]_vars

(***************************************************************************)
(* Running the script again: the environment is read afresh, the clock has *)
(* advanced, the destination file is whatever the previous run left.       *)
(***************************************************************************)
RunSummary == [ok |-> exit_code = 0, username |-> LASTFM_USERNAME,
               responses |-> responses, content |-> file.content, at |-> now]

Rerun ==
    /\ pc = "exit"
    /\ now < MaxReruns
    /\ prev' = <<RunSummary>>
    /\ now' = now + 1
    /\ \E env \in Envs :
          /\ LASTFM_API_KEY' = EnvGet(env, "LASTFM_API_KEY")
          /\ LASTFM_USERNAME' = EnvGetDefault(env, "LASTFM_USERNAME", DefaultUsername)
    /\ pc' = "main"
    /\ requests' = <<>>
    /\ responses' = <<>>
    /\ user_info' = Obj(EmptyDict)
    /\ top_artists' = <<>>
    /\ top_tracks' = <<>>
    /\ top_albums' = <<>>
    /\ recent_tracks' = <<>>
    /\ music_data' = <<>>
    /\ yaml_content' = ""
    /\ file0' = file
    /\ handle' = "none"
    /\ console' = <<>>
    /\ raised' = "none"
    /\ exit_code' = -1
    /\ UNCHANGED file

\* a smaller input domain for the runs that are compared with each other
RerunUserBodies == {Obj(EmptyDict), Obj([user |-> Obj([playcount |-> [int |-> 42]])])}
RerunArtistBodies ==
    {Obj([topartists |-> Obj([artist |-> l])]) : l \in {<<>>, ArtistList(1, 1, "int_nourl")}}
RerunTrackBodies == {Obj([toptracks |-> Obj([track |-> TrackList(1, 0, "")])])}
RerunAlbumBodies == {Obj(EmptyDict)}
RerunRecentBodies ==
    {Obj([recenttracks |-> Obj([track |-> l])]) :
        l \in {RecentList(1, 1, "long_title"), RecentList(1, 1, "artist_str")}}

NextRerun ==
    \/ Run(RerunUserBodies, RerunArtistBodies, RerunTrackBodies, RerunAlbumBodies,
           RerunRecentBodies)
    \/ Rerun

SpecRerun == Init /\ [][NextRerun]_vars

(***************************************************************************)
(* Properties.                                                             *)
(***************************************************************************)
OkResponse(r) == "status" \in DOMAIN r /\ r.status = 200
AllReturned == Len(responses) = 5 /\ \A i \in 1..5 : OkResponse(responses[i])
SectionsNamed(k) == SelectSeq(music_data, LAMBDA e : e.key = k)

\* C1: when LASTFM_API_KEY is unset or empty, the run ends with exit code 1
\* without issuing any request and without opening or changing the
\* destination file.
C1_MissingKeyExitsUntouched ==
    (LASTFM_API_KEY = <<>> \/ LASTFM_API_KEY = <<"">>) =>
        /\ pc \in {"main", "exit"}
        /\ requests = <<>>
        /\ handle = "none"
        /\ file = file0
        /\ raised = "none"
        /\ (pc = "exit" => exit_code = 1)

C1_Witness ==
    /\ pc = "exit"
    /\ LASTFM_API_KEY = <<"">>
    /\ exit_code = 1
    /\ requests = <<>>
    /\ file0.exists
    /\ file = file0
    /\ Len(console) = 2

\* C2: in a run that built its document, the top-level entries are Listening
\* Statistics, then Top Artists, Top Tracks, Top Albums and Recently Played
\* for exactly the source lists that are non-empty, in that order, then the
\* constant return entry; every successful run has built such a document.
C2_FixedOrderAndOmission ==
    /\ (pc = "exit" /\ exit_code = 0 => music_data # <<>>)
    /\ music_data # <<>> =>
          /\ [i \in 1..Len(music_data) |-> music_data[i].key] =
                <<"Listening Statistics">>
                \o (IF top_artists # <<>> THEN <<"Top Artists">> ELSE <<>>)
                \o (IF top_tracks # <<>> THEN <<"Top Tracks">> ELSE <<>>)
                \o (IF top_albums # <<>> THEN <<"Top Albums">> ELSE <<>>)
                \o (IF recent_tracks # <<>> THEN <<"Recently Played">> ELSE <<>>)
                \o <<"return">>
          /\ music_data[Len(music_data)] =
                [key |-> "return", value |-> "previous page",
                 url |-> "https://jaimeum.github.io"]

C2_Witness ==
    /\ pc = "exit" /\ exit_code = 0
    /\ top_artists # <<>> /\ top_tracks # <<>> /\ top_albums = <<>> /\ recent_tracks # <<>>
    /\ Len(music_data) = 5
    /\ music_data[4].key = "Recently Played"

\* C3: when an API call fails (transport error, non-success status, a body
\* that cannot be decoded) or a number cannot be formatted, or anything else
\* raises before the document is complete, the run ends there: the
\* destination file is never opened and keeps its previous content.
C3_FailureBeforeWriter ==
    (\/ raised \notin {"none", "OSError"}
     \/ \E i \in 1..Len(responses) : ~OkResponse(responses[i])) =>
        /\ pc = "exit"
        /\ exit_code = 1
        /\ raised # "none"
        /\ handle = "none"
        /\ file = file0
        /\ yaml_content = ""

C3_Witness ==
    /\ pc = "exit"
    /\ raised = "HTTPError"
    /\ Len(requests) = 3
    /\ ~OkResponse(responses[3])
    /\ file0.exists
    /\ file = file0

C3_WitnessFormat ==
    /\ pc = "exit"
    /\ raised = "ValueError"
    /\ AllReturned
    /\ file0.exists
    /\ file = file0

\* C4 (as claimed): after a run that failed opening or writing the
\* destination, the destination holds its previous content or the complete
\* new document.
C4_NoPartialFile ==
    (pc = "exit" /\ raised = "OSError") =>
        (file = file0 \/ (file.exists /\ file.content = yaml_content))

\* C5: the Recently Played category has exactly min(n, 5) entries for n
\* recent-track items, built from the first min(n, 5) items in input order
\* (the value of entry i starts with the name of item i) and keyed #1, #2,
\* ... consecutively (no category at all for n = 0).
C5_RecentTruncated ==
    music_data # <<>> =>
        LET n == Len(recent_tracks)
            m == IF n < 5 THEN n ELSE 5
            secs == SectionsNamed("Recently Played")
        IN  IF n = 0 THEN secs = <<>>
            ELSE /\ Len(secs) = 1
                 /\ Len(secs[1].value) = m
                 /\ \A i \in 1..m :
                       /\ secs[1].value[i].key = "#" \o ToString(i)
                       /\ StartsWith(secs[1].value[i].value, recent_tracks[i].name \o " - ")
                       /\ "#text" \in DOMAIN recent_tracks[i].artist.map =>
                             secs[1].value[i].value =
                                recent_tracks[i].name \o " - "
                                \o recent_tracks[i].artist.map["#text"]

C5_Witness ==
    /\ pc = "exit" /\ exit_code = 0
    /\ Len(recent_tracks) = 6
    /\ Len(SectionsNamed("Recently Played")) = 1
    /\ Len(SectionsNamed("Recently Played")[1].value) = 5
    /\ SectionsNamed("Recently Played")[1].value[5].key = "#5"
    /\ SectionsNamed("Recently Played")[1].value[5].value = "Song5 - Band5"

\* C6 (as claimed): a recent-track item is accepted without error whether
\* its artist field is a plain string or a mapping: a run that received a
\* plain-string artist among the first five recent tracks does not end in an
\* AttributeError, and the entry value is "<name> - <artist>" with the
\* string itself or the mapping's #text.
C6_BothArtistShapesAccepted ==
    /\ (/\ pc = "exit"
        /\ IsObj(user_info)
        /\ \E i \in 1..Len(recent_tracks) :
              i <= 5 /\ "str" \in DOMAIN recent_tracks[i].artist) =>
          raised # "AttributeError"
    /\ (music_data # <<>> /\ recent_tracks # <<>>) =>
          LET sec == SectionsNamed("Recently Played")[1] IN
          \A i \in 1..Len(sec.value) :
             IF "str" \in DOMAIN recent_tracks[i].artist
             THEN sec.value[i].value =
                     recent_tracks[i].name \o " - " \o recent_tracks[i].artist.str
             ELSE "#text" \in DOMAIN recent_tracks[i].artist.map =>
                     sec.value[i].value =
                        recent_tracks[i].name \o " - " \o recent_tracks[i].artist.map["#text"]

\* C7: the five calls are issued one at a time in the order user.getinfo,
\* user.gettopartists, user.gettoptracks, user.gettopalbums,
\* user.getrecenttracks; a call is issued only after every earlier call has
\* returned successfully; a failed call is the last one (no later call, no
\* retry) and the file is then never opened.
C7_SequentialCalls ==
    /\ Len(requests) <= 5
    /\ \A i \in 1..Len(requests) :
          requests[i].method = <<"user.getinfo", "user.gettopartists", "user.gettoptracks",
                                 "user.gettopalbums", "user.getrecenttracks">>[i]
    /\ Len(responses) <= Len(requests)
    /\ Len(requests) - Len(responses) <= 1
    /\ (Len(requests) > Len(responses) <=> pc = "recv")
    /\ \A i \in 1..(Len(requests) - 1) :
          OkResponse(responses[i]) /\ "obj" \in DOMAIN responses[i].body
    /\ \A i \in 1..Len(responses) :
          (~OkResponse(responses[i]) \/ "obj" \notin DOMAIN responses[i].body) =>
              /\ i = Len(requests)
              /\ pc = "exit"
              /\ raised # "none"
              /\ handle = "none"
              /\ file = file0
    /\ (handle # "none" => AllReturned)

C7_Witness ==
    /\ pc = "exit"
    /\ Len(requests) = 3
    /\ requests[3].method = "user.gettoptracks"
    /\ Len(responses) = 3
    /\ OkResponse(responses[2])
    /\ ~OkResponse(responses[3])
    /\ handle = "none"

C7_WitnessAllFive ==
    /\ pc = "build"
    /\ Len(requests) = 5
    /\ requests[5].method = "user.getrecenttracks"
    /\ AllReturned

C7_WitnessUndecodable ==
    /\ pc = "exit"
    /\ raised = "JSONDecodeError"
    /\ Len(requests) = 2
    /\ OkResponse(responses[2])
    /\ "raw" \in DOMAIN responses[2].body

\* C8: two successful runs with the same username that received identical
\* responses to all five calls leave identical content in the destination
\* file, although the clock differs; the completion timestamp is printed to
\* the console and is nowhere in the file.
C8_Idempotent ==
    /\ (pc = "exit" /\ exit_code = 0) =>
          /\ console[Len(console)] = "Last updated: 1970-01-01 00:00:0" \o ToString(now)
          /\ ~Contains(file.content, "Last updated")
          /\ \A t \in 0..9 : ~Contains(file.content, "1970-01-01 00:00:0" \o ToString(t))
    /\ (/\ pc = "exit" /\ exit_code = 0
        /\ prev # <<>>
        /\ prev[1].ok
        /\ prev[1].username = LASTFM_USERNAME
        /\ prev[1].responses = responses) =>
          file.content = prev[1].content

C8_Witness ==
    /\ pc = "exit" /\ exit_code = 0
    /\ prev # <<>>
    /\ prev[1].ok
    /\ prev[1].username = LASTFM_USERNAME
    /\ prev[1].responses = responses
    /\ prev[1].at # now
    /\ Len(responses) = 5
    /\ top_artists # <<>>
    /\ Contains(file.content, "    value: '" \o Backtick \o "Band1 (1,000 plays)'\n")
    /\ file.content = prev[1].content
    /\ Len(file.content) > 300

\* C9: a successful response that lacks the top-level key or the nested key
\* of its unwrap path is unwrapped to an empty mapping or list; a run whose
\* five responses all lack their keys raises no error while fetching or
\* building, and when it completes it has written the two-entry document.
LacksKeys(i, body) ==
    LET outer == <<"user", "topartists", "toptracks", "topalbums", "recenttracks">>[i]
        inner == <<"", "artist", "track", "album", "track">>[i]
    IN  /\ "obj" \in DOMAIN body
        /\ \/ outer \notin DOMAIN body.obj
           \/ /\ i > 1
              /\ "obj" \in DOMAIN body.obj[outer]
              /\ inner \notin DOMAIN body.obj[outer].obj
AllLackKeys == AllReturned /\ \A i \in 1..5 : LacksKeys(i, responses[i].body)

C9_MissingKeysAreEmpty ==
    /\ \A i \in 1..Len(responses) :
          (OkResponse(responses[i]) /\ LacksKeys(i, responses[i].body)) =>
              IF i = 1 THEN user_info = [obj |-> <<>>]
              ELSE <<user_info, top_artists, top_tracks, top_albums, recent_tracks>>[i] = <<>>
    /\ AllLackKeys =>
          /\ raised \in {"none", "OSError"}
          /\ pc \in {"build", "open", "write", "finish", "exit"}
          /\ (pc \in {"open", "write", "finish", "exit"} =>
                 /\ Len(music_data) = 2
                 /\ music_data[1].value[1].value = "0"
                 /\ music_data[2].key = "return")
          /\ (pc \in {"finish", "exit"} /\ raised = "none" =>
                 file = [exists |-> TRUE,
                         content |-> "- key: Listening Statistics\n"
                                     \o "  value:\n"
                                     \o "  - key: Total Scrobbles\n"
                                     \o "    value: '0'\n"
                                     \o "  - key: Last.fm Profile\n"
                                     \o "    value: " \o LASTFM_USERNAME \o "\n"
                                     \o "    url: https://www.last.fm/user/"
                                     \o LASTFM_USERNAME \o "\n"
                                     \o "- key: return\n"
                                     \o "  value: previous page\n"
                                     \o "  url: https://jaimeum.github.io\n"])

C9_Witness ==
    /\ pc = "exit" /\ exit_code = 0
    /\ AllLackKeys
    /\ responses[2].body = [obj |-> <<>>]
    /\ "toptracks" \in DOMAIN responses[3].body.obj
    /\ Len(file.content) > 200
    /\ file0.exists

\* C10: Listening Statistics is a two-entry list, Total Scrobbles then
\* Last.fm Profile; the profile url is the user info's url when it has one
\* and https://www.last.fm/user/<configured username> when it has none.
C10_StatsAndProfileUrl ==
    music_data # <<>> =>
        LET stats == music_data[1] IN
        /\ stats.key = "Listening Statistics"
        /\ Len(stats.value) = 2
        /\ stats.value[1].key = "Total Scrobbles"
        /\ stats.value[2].key = "Last.fm Profile"
        /\ stats.value[2].value = LASTFM_USERNAME
        /\ stats.value[2].url =
              IF "url" \in DOMAIN user_info.obj THEN user_info.obj.url
              ELSE "https://www.last.fm/user/" \o LASTFM_USERNAME

C10_Witness ==
    /\ pc = "exit" /\ exit_code = 0
    /\ LASTFM_USERNAME = "alice"
    /\ "playcount" \in DOMAIN user_info.obj
    /\ "url" \notin DOMAIN user_info.obj
    /\ music_data[1].value[1].value = "42"
    /\ music_data[1].value[2].url = "https://www.last.fm/user/alice"

C10_WitnessUrlPresent ==
    /\ pc = "exit" /\ exit_code = 0
    /\ "url" \in DOMAIN user_info.obj
    /\ music_data[1].value[1].value = "1,234,567"
    /\ music_data[1].value[2].url = "https://www.last.fm/user/listener"
====
